---- MODULE Spec2Model ----
(***************************************************************************)
(* State-machine model of the PinTracer trace writer                       *)
(* (src/PinTracer/TraceWriter.cpp, src/PinTracer/FilterEntry.h): the       *)
(* filter-matching engine, the fixed-size entry buffer with its            *)
(* flush-on-full protocol, and the prefix / per-testcase file lifecycle.   *)
(*                                                                         *)
(* Pointers into the entry buffer are modelled as slot indexes:            *)
(* Begin() is slot 0, End() is slot ENTRY_BUFFER_SIZE, nullptr is NullPtr. *)
(* Every C++ function is a pure operator from a writer state record (and   *)
(* its arguments) to the state after the call; an action of the state      *)
(* machine is one call of a public function by the host framework.         *)
(***************************************************************************)
EXTENDS Integers, Sequences, FiniteSets, TLC

(***************************************************************************)
(* Bounds of the model.                                                    *)
(***************************************************************************)
\* Number of TraceEntry slots in the buffer (the compile-time capacity C).
ENTRY_BUFFER_SIZE == 2
\* Largest number of insertion calls in one behaviour.
MaxInserts == 5
\* Largest number of lifecycle calls (InitPrefixMode, TestcaseStart,
\* TestcaseEnd, WriteImageLoadData) in one behaviour.
MaxCalls == 4
\* Largest number of rules in an installed filter table.
MaxRules == 2
\* Largest address bound used in a filter rule; events use 1..MaxAddr+1.
MaxAddr == 2

(***************************************************************************)
(* FilterEntry.h: the type bits.  The macros are unparenthesised shifts;   *)
(* every use in TraceWriter.cpp combines them with | and & only, where the *)
(* shift binds tighter, so each macro denotes the single bit below.        *)
(***************************************************************************)
FilterTypeWhiteList == 1
FilterTypeControlFlow == 2
FilterTypeDataAccess == 4
FilterTypeJump == 8
FilterTypeCall == 16
FilterTypeReturn == 32
FilterTypeLinearize == 64
FilterTypeRead == 64
FilterTypeWrite == 128

(***************************************************************************)
(* TraceEntryFlags (TraceWriter.h): taken bit and branch sub-type field.   *)
(* BranchTypeReturn doubles as the mask of the sub-type field.             *)
(***************************************************************************)
BranchNotTaken == 0
BranchTaken == 1
BranchTypeJump == 2
BranchTypeCall == 4
BranchTypeReturn == 6

\* Value of _testcaseId while no testcase is active.
InactiveTestcaseId == -1
\* Initial value of _testcaseId (member initialiser in TraceWriter.h).
InitialTestcaseId == InactiveTestcaseId

\* Pointer values.
Begin == 0
End == ENTRY_BUFFER_SIZE
NullPtr == -1
\* nullptr + 1: a non-null pointer outside the buffer.
WildPtr == -2
\* The writer object passed to the static insertion functions.
TraceWriterPtr == 1

(***************************************************************************)
(* 8-bit bitwise operators.                                                *)
(***************************************************************************)
RECURSIVE BitAnd(_, _)
BitAnd(a, b) ==
    IF a = 0 \/ b = 0 THEN 0
    ELSE (a % 2) * (b % 2) + 2 * BitAnd(a \div 2, b \div 2)

RECURSIVE BitOr(_, _)
BitOr(a, b) ==
    IF a = 0 THEN b
    ELSE IF b = 0 THEN a
    ELSE (IF a % 2 = 1 \/ b % 2 = 1 THEN 1 ELSE 0) + 2 * BitOr(a \div 2, b \div 2)

RECURSIVE BitXor(_, _)
BitXor(a, b) ==
    IF a = 0 THEN b
    ELSE IF b = 0 THEN a
    ELSE ((a + b) % 2) + 2 * BitXor(a \div 2, b \div 2)

\* Variant: one common bit is enough.
FilterTypeMatchAnyBit(type, value) == BitAnd(type, value) # 0

\* #define FilterTypeMatch(type, value) (((type) & (value)) == (type))
FilterTypeMatch(type, value) == BitAnd(type, value) = type

(***************************************************************************)
(* IsWhitelisted: the scan of the filter table.  The result is the         *)
(* returned bool (allow) together with the flag, which is passed by        *)
(* reference.  For the record of a call the result also names the rule     *)
(* whose return statement ended the scan (decided, 0 if none), the rules   *)
(* left by the first continue (skipped) and the rules left by the second   *)
(* continue, after the range test (failed).                                *)
(***************************************************************************)
Verdict(allow, flag, decided) ==
    [allow |-> allow, flag |-> flag, decided |-> decided, skipped |-> {}, failed |-> {}]

\* The first continue: each range has a zero bound.
\* Variant: a rule is left out only when all four bounds are zero.
EntrySkippedAllZero(entry) ==
    entry.originStart = 0 /\ entry.originEnd = 0
    /\ entry.targetStart = 0 /\ entry.targetEnd = 0

EntrySkipped(entry) ==
    (entry.originStart = 0 \/ entry.originEnd = 0)
    /\ (entry.targetStart = 0 \/ entry.targetEnd = 0)

\* acc: a range is tested only when both of its bounds are non-zero.
RangeAccepted(entry, instr, addr) ==
    LET accOrigin == IF entry.originStart # 0 /\ entry.originEnd # 0
                     THEN instr >= entry.originStart /\ instr <= entry.originEnd
                     ELSE TRUE
        accTarget == IF entry.targetStart # 0 /\ entry.targetEnd # 0
                     THEN addr >= entry.targetStart /\ addr <= entry.targetEnd
                     ELSE TRUE
    IN  accOrigin /\ accTarget

\* Variant: the rewrite clears the call bit and sets nothing.
LinearizedCallBitOnly(flag) == BitXor(flag, BranchTypeCall)

\* flag ^= BranchTypeCall ^ BranchTypeJump
Linearized(flag) == BitXor(flag, BitXor(BranchTypeCall, BranchTypeJump))

RECURSIVE IsWhitelistedLoop(_, _, _, _, _, _)
IsWhitelistedLoop(filter, i, type, instr, addr, flag) ==
    IF i > Len(filter) THEN Verdict(FALSE, flag, 0)
    ELSE
      LET entry == filter[i]
          next == IsWhitelistedLoop(filter, i + 1, type, instr, addr, flag)
          white == BitAnd(entry.type, FilterTypeWhiteList) # 0
          subType == BitAnd(flag, BranchTypeReturn)
      IN  IF EntrySkipped(entry)
          THEN [next EXCEPT !.skipped = @ \cup {i}]
          ELSE IF ~RangeAccepted(entry, instr, addr)
          THEN [next EXCEPT !.failed = @ \cup {i}]
          ELSE IF type = "MemoryRead"
                  /\ FilterTypeMatch(BitOr(FilterTypeDataAccess, FilterTypeRead), entry.type)
          THEN Verdict(white, flag, i)
          ELSE IF type = "MemoryWrite"
                  /\ FilterTypeMatch(BitOr(FilterTypeDataAccess, FilterTypeWrite), entry.type)
          THEN Verdict(white, flag, i)
          ELSE IF type = "Branch"
                  /\ FilterTypeMatch(BitOr(FilterTypeControlFlow, FilterTypeJump), entry.type)
                  /\ subType = BranchTypeJump
          THEN Verdict(white, flag, i)
          ELSE IF type = "Branch"
                  /\ FilterTypeMatch(BitOr(FilterTypeControlFlow, FilterTypeCall), entry.type)
                  /\ subType = BranchTypeCall
          THEN Verdict(white,
                       IF BitAnd(entry.type, FilterTypeLinearize) # 0
                       THEN Linearized(flag) ELSE flag,
                       i)
          ELSE IF type = "Branch"
                  /\ FilterTypeMatch(BitOr(FilterTypeControlFlow, FilterTypeCall), entry.type)
                  /\ subType = BranchTypeReturn
          THEN Verdict(white, flag, i)
          ELSE next

\* Variant: a return is matched by the rules tagged ControlFlow and Return.
RECURSIVE IsWhitelistedLoopReturnBit(_, _, _, _, _, _)
IsWhitelistedLoopReturnBit(filter, i, type, instr, addr, flag) ==
    IF i > Len(filter) THEN Verdict(FALSE, flag, 0)
    ELSE
      LET entry == filter[i]
          next == IsWhitelistedLoopReturnBit(filter, i + 1, type, instr, addr, flag)
          white == BitAnd(entry.type, FilterTypeWhiteList) # 0
          subType == BitAnd(flag, BranchTypeReturn)
      IN  IF EntrySkipped(entry)
          THEN [next EXCEPT !.skipped = @ \cup {i}]
          ELSE IF ~RangeAccepted(entry, instr, addr)
          THEN [next EXCEPT !.failed = @ \cup {i}]
          ELSE IF type = "MemoryRead"
                  /\ FilterTypeMatch(BitOr(FilterTypeDataAccess, FilterTypeRead), entry.type)
          THEN Verdict(white, flag, i)
          ELSE IF type = "MemoryWrite"
                  /\ FilterTypeMatch(BitOr(FilterTypeDataAccess, FilterTypeWrite), entry.type)
          THEN Verdict(white, flag, i)
          ELSE IF type = "Branch"
                  /\ FilterTypeMatch(BitOr(FilterTypeControlFlow, FilterTypeJump), entry.type)
                  /\ subType = BranchTypeJump
          THEN Verdict(white, flag, i)
          ELSE IF type = "Branch"
                  /\ FilterTypeMatch(BitOr(FilterTypeControlFlow, FilterTypeCall), entry.type)
                  /\ subType = BranchTypeCall
          THEN Verdict(white,
                       IF BitAnd(entry.type, FilterTypeLinearize) # 0
                       THEN Linearized(flag) ELSE flag,
                       i)
          ELSE IF type = "Branch"
                  /\ FilterTypeMatch(BitOr(FilterTypeControlFlow, FilterTypeReturn), entry.type)
                  /\ subType = BranchTypeReturn
          THEN Verdict(white, flag, i)
          ELSE next

IsWhitelistedReturnBit(filter, type, instr, addr, flag) ==
    IF Len(filter) <= 0 THEN Verdict(TRUE, flag, 0)
    ELSE IsWhitelistedLoopReturnBit(filter, 1, type, instr, addr, flag)

\* Variant: the table is scanned from its last rule, so a later rule overrides.
IsWhitelistedLastRule(filter, type, instr, addr, flag) ==
    IF Len(filter) <= 0 THEN Verdict(TRUE, flag, 0)
    ELSE IsWhitelistedLoop([i \in 1..Len(filter) |-> filter[Len(filter) + 1 - i]], 1,
                           type, instr, addr, flag)

\* Variant: no early return for the empty table.
IsWhitelistedFailClosed(filter, type, instr, addr, flag) ==
    IsWhitelistedLoop(filter, 1, type, instr, addr, flag)

IsWhitelisted(filter, type, instr, addr, flag) ==
    IF Len(filter) <= 0 THEN Verdict(TRUE, flag, 0)
    ELSE IsWhitelistedLoop(filter, 1, type, instr, addr, flag)

(***************************************************************************)
(* Data.                                                                   *)
(***************************************************************************)
TestcaseIds == {1, 2}
PrefixTraceFile == "prefix.trace"
\* filenameStream << _outputFilenamePrefix << "t" << std::dec << _testcaseId << ".trace"
TestcaseFile(id) == "t" \o ToString(id) \o ".trace"
FileNames == {PrefixTraceFile} \cup {TestcaseFile(id) : id \in TestcaseIds}

\* The content of a slot of _entries that was never written.
UninitEntry == [Type |-> "Uninit", Flag |-> 0, Param0 |-> 0, Param1 |-> 0, Param2 |-> 0]

VARIABLES
    filterAddr,             \* _filterAddr[0.._filterAddrSize-1], a sequence of FilterEntry
    prefixMode,             \* _prefixMode
    sawFirstReturn,         \* _sawFirstReturn
    testcaseId,             \* _testcaseId
    entries,                \* _entries, slot index -> TraceEntry
    outputOpen,             \* _outputFileStream.is_open()
    currentOutputFilename,  \* _currentOutputFilename
    files,                  \* the binary trace files on disk, name -> records
    prefixDataOpen,         \* _prefixDataFileStream.is_open()
    prefixData,             \* lines of the prefix metadata file
    stdout,                 \* lines written to std::cout
    fault,                  \* "none", or how the process ended
    nextEntry,              \* the caller's cursor into _entries
    io,                     \* history: file operations of the last call, in order
    last,                   \* history: the last call, its arguments and result
    runs,                   \* history: per trace file, the entries accepted for it
    hist,                   \* history: what last set _sawFirstReturn, returns since, ...;
                            \* idle: a TestcaseEnd returned and no TestcaseStart or
                            \* InitPrefixMode followed; stale: the entries stored then;
                            \* starts: number of TestcaseStart calls
    nInserts,               \* number of insertion calls so far
    nCalls,                 \* number of lifecycle calls so far
    threads                 \* SpecThreads: per tracing thread, where it is in a call,
                            \* its locals, its cursor and its TraceWriter object

progVars == <<filterAddr, prefixMode, sawFirstReturn, testcaseId, entries, outputOpen,
              currentOutputFilename, files, prefixDataOpen, prefixData, stdout, fault>>
vars == <<filterAddr, prefixMode, sawFirstReturn, testcaseId, entries, outputOpen,
          currentOutputFilename, files, prefixDataOpen, prefixData, stdout, fault,
          nextEntry, io, last, runs, hist, nInserts, nCalls, threads>>

\* The writer's state as a record; io collects the file operations of a call.
State ==
    [filterAddr |-> filterAddr, prefixMode |-> prefixMode,
     sawFirstReturn |-> sawFirstReturn, testcaseId |-> testcaseId,
     entries |-> entries, outputOpen |-> outputOpen,
     currentOutputFilename |-> currentOutputFilename, files |-> files,
     prefixDataOpen |-> prefixDataOpen, prefixData |-> prefixData,
     stdout |-> stdout, fault |-> fault, io |-> <<>>]

Commit(s) ==
    /\ filterAddr' = s.filterAddr
    /\ prefixMode' = s.prefixMode
    /\ sawFirstReturn' = s.sawFirstReturn
    /\ testcaseId' = s.testcaseId
    /\ entries' = s.entries
    /\ outputOpen' = s.outputOpen
    /\ currentOutputFilename' = s.currentOutputFilename
    /\ files' = s.files
    /\ prefixDataOpen' = s.prefixDataOpen
    /\ prefixData' = s.prefixData
    /\ stdout' = s.stdout
    /\ fault' = s.fault
    /\ io' = s.io

\* A file operation, appended to the call's history.
IoEvent(s, kind, file, n) == [s EXCEPT !.io = Append(@, <<kind, file, n>>)]

(***************************************************************************)
(* Ways the process ends inside a call.  Both streams are set to throw on  *)
(* failbit and badbit (lines 46 and 70); nothing in TraceWriter.cpp        *)
(* catches std::ios_base::failure, so a failed stream operation ends the   *)
(* call at that statement.                                                 *)
(***************************************************************************)
Throw(s) == [s EXCEPT !.fault = "ios_failure"]
\* A dereference of, or arithmetic on, a null cursor is undefined.
Undefined(s) == [s EXCEPT !.fault = "undefined"]
Ok(s) == s.fault = "none"

\* if(_testcaseId != -1 || _prefixMode)
TracingActive(s) == s.testcaseId # InactiveTestcaseId \/ s.prefixMode

\* The records in slots [0, end).
BufferUpTo(s, end) == [i \in 1..end |-> s.entries[i - 1]]

(***************************************************************************)
(* TraceFileManager.                                                       *)
(***************************************************************************)
OpenOutputFile(s, filename) ==
    LET s1 == [s EXCEPT !.currentOutputFilename = filename]
    IN  IF s1.outputOpen
        THEN Throw(s1)       \* open() on an open stream sets failbit
        ELSE IoEvent([s1 EXCEPT !.outputOpen = TRUE, !.files[filename] = <<>>],
                     "open", filename, 0)

\* Variant: the buffer is written whether tracing is active or not.
WriteBufferToFileAlways(s, end) ==
    IF end = NullPtr
    THEN Undefined(s)
    ELSE IF ~s.outputOpen
    THEN Throw(s)
    ELSE IoEvent([s EXCEPT !.files[s.currentOutputFilename] = @ \o BufferUpTo(s, end)],
                 "write", s.currentOutputFilename, end)

WriteBufferToFile(s, end) ==
    IF TracingActive(s)
    THEN IF end = NullPtr
         THEN Undefined(s)   \* length computed from a null end pointer
         ELSE IF ~s.outputOpen
         THEN Throw(s)       \* write() on a closed stream sets badbit
         ELSE IoEvent([s EXCEPT !.files[s.currentOutputFilename] = @ \o BufferUpTo(s, end)],
                      "write", s.currentOutputFilename, end)
    ELSE s

\* Variant: the rest of the buffer is not written before the file is closed.
TestcaseEndNoFlush(s, ne) ==
    LET s2 == IF ~s.outputOpen
              THEN Throw(s)
              ELSE IoEvent([s EXCEPT !.outputOpen = FALSE], "close", s.currentOutputFilename, 0)
        s3 == IF ~Ok(s2) THEN s2
              ELSE IF s2.prefixMode
              THEN IF ~s2.prefixDataOpen
                   THEN Throw(s2)
                   ELSE IoEvent([s2 EXCEPT !.prefixDataOpen = FALSE, !.prefixMode = FALSE],
                                "closeMeta", "prefix_data.txt", 0)
              ELSE IoEvent([s2 EXCEPT !.stdout = Append(@, s2.currentOutputFilename)],
                           "notify", s2.currentOutputFilename, 0)
    IN  IF ~Ok(s3) THEN s3 ELSE [s3 EXCEPT !.testcaseId = InactiveTestcaseId]

\* Variant: the completion line is printed in prefix mode as well.
TestcaseEndAlwaysNotifies(s, ne) ==
    LET s1 == IF ne # Begin THEN WriteBufferToFile(s, ne) ELSE s
        s2 == IF ~Ok(s1) THEN s1
              ELSE IF ~s1.outputOpen
              THEN Throw(s1)
              ELSE IoEvent([s1 EXCEPT !.outputOpen = FALSE], "close", s1.currentOutputFilename, 0)
        s3 == IF ~Ok(s2) THEN s2
              ELSE IF s2.prefixMode
              THEN IF ~s2.prefixDataOpen
                   THEN Throw(s2)
                   ELSE IoEvent([s2 EXCEPT !.prefixDataOpen = FALSE, !.prefixMode = FALSE,
                                           !.stdout = Append(@, s2.currentOutputFilename)],
                                "closeMeta", "prefix_data.txt", 0)
              ELSE IoEvent([s2 EXCEPT !.stdout = Append(@, s2.currentOutputFilename)],
                           "notify", s2.currentOutputFilename, 0)
    IN  IF ~Ok(s3) THEN s3 ELSE [s3 EXCEPT !.testcaseId = InactiveTestcaseId]

TestcaseEnd(s, ne) ==
    LET s1 == IF ne # Begin THEN WriteBufferToFile(s, ne) ELSE s
        s2 == IF ~Ok(s1) THEN s1
              ELSE IF ~s1.outputOpen
              THEN Throw(s1) \* close() on a closed stream sets failbit
              ELSE IoEvent([s1 EXCEPT !.outputOpen = FALSE], "close", s1.currentOutputFilename, 0)
        s3 == IF ~Ok(s2) THEN s2
              ELSE IF s2.prefixMode
              THEN IF ~s2.prefixDataOpen
                   THEN Throw(s2)
                   ELSE IoEvent([s2 EXCEPT !.prefixDataOpen = FALSE, !.prefixMode = FALSE],
                                "closeMeta", "prefix_data.txt", 0)
              ELSE IoEvent([s2 EXCEPT !.stdout = Append(@, s2.currentOutputFilename)],
                           "notify", s2.currentOutputFilename, 0)
    IN  IF ~Ok(s3) THEN s3 ELSE [s3 EXCEPT !.testcaseId = InactiveTestcaseId]

\* Variant: the prefix is not closed before the testcase file is opened.
TestcaseStartNoEnd(s, id, ne) ==
    OpenOutputFile([s EXCEPT !.testcaseId = id, !.sawFirstReturn = FALSE], TestcaseFile(id))

TestcaseStart(s, id, ne) ==
    LET s1 == IF s.prefixMode THEN TestcaseEnd(s, ne) ELSE s
    IN  IF ~Ok(s1) THEN s1
        ELSE OpenOutputFile([s1 EXCEPT !.testcaseId = id, !.sawFirstReturn = FALSE],
                            TestcaseFile(id))

InitPrefixMode(s) ==
    LET s1 == [s EXCEPT !.prefixMode = TRUE, !.sawFirstReturn = TRUE]
    IN  IF s1.prefixDataOpen
        THEN Throw(s1)       \* open() on an open stream sets failbit
        ELSE IoEvent([s1 EXCEPT !.prefixDataOpen = TRUE, !.prefixData = <<>>],
                     "openMeta", "prefix_data.txt", 0)

(***************************************************************************)
(* TestcaseEnd and TestcaseStart in two parts each, for threads that are   *)
(* not kept from running them at the same time: no statement of            *)
(* TraceWriter.cpp takes a lock.                                           *)
(***************************************************************************)
\* TestcaseEnd up to and including the close of the stream.
TestcaseEndFlushClose(s, ne) ==
    LET s1 == IF ne # Begin THEN WriteBufferToFile(s, ne) ELSE s
    IN  IF ~Ok(s1) THEN s1
        ELSE IF ~s1.outputOpen
        THEN Throw(s1)
        ELSE IoEvent([s1 EXCEPT !.outputOpen = FALSE], "close", s1.currentOutputFilename, 0)

\* TestcaseEnd from the test of _prefixMode on.
TestcaseEndFinish(s) ==
    LET s3 == IF s.prefixMode
              THEN IF ~s.prefixDataOpen
                   THEN Throw(s)
                   ELSE IoEvent([s EXCEPT !.prefixDataOpen = FALSE, !.prefixMode = FALSE],
                                "closeMeta", "prefix_data.txt", 0)
              ELSE IoEvent([s EXCEPT !.stdout = Append(@, s.currentOutputFilename)],
                           "notify", s.currentOutputFilename, 0)
    IN  IF ~Ok(s3) THEN s3 ELSE [s3 EXCEPT !.testcaseId = InactiveTestcaseId]

\* TestcaseStart: if(_prefixMode) TestcaseEnd(nextEntry);
TestcaseStartExitPrefix(s, ne) == IF s.prefixMode THEN TestcaseEnd(s, ne) ELSE s

\* TestcaseStart from the assignment of _testcaseId on.
TestcaseStartOpen(s, id) ==
    OpenOutputFile([s EXCEPT !.testcaseId = id, !.sawFirstReturn = FALSE], TestcaseFile(id))

WriteImageLoadData(s, interesting, startAddress, endAddress, name) ==
    IF ~s.prefixMode THEN s
    ELSE IF ~s.prefixDataOpen THEN Throw(s)
    ELSE IoEvent([s EXCEPT !.prefixData = Append(@, <<interesting, startAddress, endAddress, name>>)],
                 "metaLine", "prefix_data.txt", 0)

\* SetFilter stores the table; the rest of the function only logs it.
SetFilter(s, table) == [s EXCEPT !.filterAddr = table]

(***************************************************************************)
(* Insertion functions.  Each returns the set of outcomes of the call: one *)
(* outcome, except where the code's behaviour is undefined.  An outcome is *)
(* the writer state after the call (st), the returned cursor (ret),        *)
(* whether a buffer slot was written (stored) and the result of the        *)
(* IsWhitelisted call the function made, if any (match).                   *)
(***************************************************************************)
NoMatch == [called |-> FALSE, allow |-> FALSE, flag |-> 0, decided |-> 0,
            skipped |-> {}, failed |-> {}]
Matched(w) == [called |-> TRUE, allow |-> w.allow, flag |-> w.flag, decided |-> w.decided,
               skipped |-> w.skipped, failed |-> w.failed]

\* nextEntry->Type = ... with nextEntry == nullptr: the process is killed, or
\* the store goes through and the call carries on with nullptr + 1.
NullDeref(s, m) ==
    {[st |-> Undefined(s), ret |-> NullPtr, stored |-> FALSE, match |-> m],
     [st |-> Undefined(s), ret |-> WildPtr, stored |-> FALSE, match |-> m]}

\* Variant: a full buffer is restarted without being written.
CheckBufferAndStoreNoFlush(s, traceWriter, ne) ==
    IF traceWriter = NullPtr \/ ne = NullPtr
    THEN [st |-> s, ret |-> NullPtr]
    ELSE IF ne = End
    THEN [st |-> s, ret |-> Begin]
    ELSE [st |-> s, ret |-> ne]

\* Variant: a full buffer is written but the cursor is not restarted.
CheckBufferAndStoreNoRestart(s, traceWriter, ne) ==
    IF traceWriter = NullPtr \/ ne = NullPtr
    THEN [st |-> s, ret |-> NullPtr]
    ELSE IF ne = End
    THEN [st |-> WriteBufferToFile(s, End), ret |-> ne]
    ELSE [st |-> s, ret |-> ne]

CheckBufferAndStore(s, traceWriter, ne) ==
    IF traceWriter = NullPtr \/ ne = NullPtr
    THEN [st |-> s, ret |-> NullPtr]
    ELSE IF ne = End
    THEN [st |-> WriteBufferToFile(s, End), ret |-> Begin]
    ELSE [st |-> s, ret |-> ne]

\* Write the given fields of slot ne, then CheckBufferAndStore(nextEntry + 1).
StoreAndAdvance(s, traceWriter, ne, entry, m) ==
    LET s1 == [s EXCEPT !.entries[ne] = entry]
        c == CheckBufferAndStore(s1, traceWriter, ne + 1)
    IN  {[st |-> c.st, ret |-> c.ret, stored |-> TRUE, match |-> m]}

Rejected(s, ne, m) == {[st |-> s, ret |-> ne, stored |-> FALSE, match |-> m]}

\* The flags argument the data-access insertions hand to IsWhitelisted.
dataAccessFlags == 0

InsertMemoryReadEntry(s, traceWriter, ne, instructionAddress, memoryAddress, size) ==
    LET w == IsWhitelisted(s.filterAddr, "MemoryRead", instructionAddress, memoryAddress,
                           dataAccessFlags)
        m == IF Len(s.filterAddr) > 0 THEN Matched(w) ELSE NoMatch
    IN  IF Len(s.filterAddr) > 0 /\ ~w.allow THEN Rejected(s, ne, m)
        ELSE IF ne = NullPtr THEN NullDeref(s, m)
        ELSE StoreAndAdvance(s, traceWriter, ne,
                 [s.entries[ne] EXCEPT !.Type = "MemoryRead", !.Param0 = size,
                                       !.Param1 = instructionAddress,
                                       !.Param2 = memoryAddress], m)

InsertMemoryWriteEntry(s, traceWriter, ne, instructionAddress, memoryAddress, size) ==
    LET w == IsWhitelisted(s.filterAddr, "MemoryWrite", instructionAddress, memoryAddress,
                           dataAccessFlags)
        m == IF Len(s.filterAddr) > 0 THEN Matched(w) ELSE NoMatch
    IN  IF Len(s.filterAddr) > 0 /\ ~w.allow THEN Rejected(s, ne, m)
        ELSE IF ne = NullPtr THEN NullDeref(s, m)
        ELSE StoreAndAdvance(s, traceWriter, ne,
                 [s.entries[ne] EXCEPT !.Type = "MemoryWrite", !.Param0 = size,
                                       !.Param1 = instructionAddress,
                                       !.Param2 = memoryAddress], m)

InsertHeapAllocSizeParameterEntry(s, traceWriter, ne, size) ==
    IF ne = NullPtr \/ Len(s.filterAddr) > 0 THEN Rejected(s, ne, NoMatch)
    ELSE StoreAndAdvance(s, traceWriter, ne,
             [s.entries[ne] EXCEPT !.Type = "HeapAllocSizeParameter", !.Param1 = size],
             NoMatch)

InsertCallocSizeParameterEntry(s, traceWriter, ne, count, size) ==
    InsertHeapAllocSizeParameterEntry(s, traceWriter, ne, count * size)

InsertHeapAllocAddressReturnEntry(s, traceWriter, ne, memoryAddress) ==
    IF ne = NullPtr \/ Len(s.filterAddr) > 0 THEN Rejected(s, ne, NoMatch)
    ELSE StoreAndAdvance(s, traceWriter, ne,
             [s.entries[ne] EXCEPT !.Type = "HeapAllocAddressReturn",
                                   !.Param2 = memoryAddress], NoMatch)

\* Variant: the free-parameter insertion ignores the filter table.
InsertHeapFreeUnfiltered(s, traceWriter, ne, memoryAddress) ==
    IF ne = NullPtr THEN Rejected(s, ne, NoMatch)
    ELSE StoreAndAdvance(s, traceWriter, ne,
             [s.entries[ne] EXCEPT !.Type = "HeapFreeAddressParameter",
                                   !.Param2 = memoryAddress], NoMatch)

InsertHeapFreeAddressParameterEntry(s, traceWriter, ne, memoryAddress) ==
    IF ne = NullPtr \/ Len(s.filterAddr) > 0 THEN Rejected(s, ne, NoMatch)
    ELSE StoreAndAdvance(s, traceWriter, ne,
             [s.entries[ne] EXCEPT !.Type = "HeapFreeAddressParameter",
                                   !.Param2 = memoryAddress], NoMatch)

InsertStackPointerModificationEntry(s, traceWriter, ne, instructionAddress, newStackPointer, flags) ==
    IF Len(s.filterAddr) > 0 THEN Rejected(s, ne, NoMatch)
    ELSE IF ne = NullPtr THEN NullDeref(s, NoMatch)
    ELSE StoreAndAdvance(s, traceWriter, ne,
             [s.entries[ne] EXCEPT !.Type = "StackPointerModification", !.Flag = flags,
                                   !.Param1 = instructionAddress,
                                   !.Param2 = newStackPointer], NoMatch)

InsertBranchEntry(s, traceWriter, ne, sourceAddress, targetAddress, taken, type) ==
    LET w == IsWhitelisted(s.filterAddr, "Branch", sourceAddress, targetAddress, type)
        m == IF Len(s.filterAddr) > 0 THEN Matched(w) ELSE NoMatch
        type1 == IF Len(s.filterAddr) > 0 THEN w.flag ELSE type
    IN  IF Len(s.filterAddr) > 0 /\ ~w.allow THEN Rejected(s, ne, m)
        ELSE IF ne = NullPtr THEN NullDeref(s, m)
        ELSE StoreAndAdvance(s, traceWriter, ne,
                 [s.entries[ne] EXCEPT !.Type = "Branch", !.Param1 = sourceAddress,
                                       !.Param2 = targetAddress,
                                       !.Flag = BitOr(type1, IF taken = 0 THEN BranchNotTaken
                                                             ELSE BranchTaken)], m)

\* Variant: the flag is tested but never set.
InsertRetBranchEntryNoLatch(s, traceWriter, ne, sourceAddress, targetAddress) ==
    IF ~s.sawFirstReturn
    THEN Rejected(s, ne, NoMatch)
    ELSE InsertBranchEntry(s, traceWriter, ne, sourceAddress, targetAddress, 1,
                           BranchTypeReturn)

InsertRetBranchEntry(s, traceWriter, ne, sourceAddress, targetAddress) ==
    IF ~s.sawFirstReturn
    THEN Rejected([s EXCEPT !.sawFirstReturn = TRUE], ne, NoMatch)
    ELSE InsertBranchEntry(s, traceWriter, ne, sourceAddress, targetAddress, 1,
                           BranchTypeReturn)

InsertStackPointerInfoEntry(s, traceWriter, ne, stackPointerMin, stackPointerMax) ==
    IF ne = NullPtr THEN NullDeref(s, NoMatch)
    ELSE StoreAndAdvance(s, traceWriter, ne,
             [s.entries[ne] EXCEPT !.Type = "StackPointerInfo", !.Param1 = stackPointerMin,
                                   !.Param2 = stackPointerMax], NoMatch)

(***************************************************************************)
(* The host framework (not part of TraceWriter.cpp).  TestcaseStart and    *)
(* TestcaseEnd return void: the caller either keeps its cursor or restarts *)
(* at Begin().                                                             *)
(***************************************************************************)
CallerCursorAfter(ne) == IF ne = NullPtr THEN {NullPtr} ELSE {ne, Begin}

(***************************************************************************)
(* History bookkeeping.  runs[f] follows the trace file f from the moment  *)
(* tracing becomes active on it with f open and empty and the cursor at    *)
(* Begin() ("active"): the entries stored in the buffer while tracing is   *)
(* active (accepted) and the sizes of the stream writes (writes), until    *)
(* TestcaseEnd closes it ("ended").                                        *)
(***************************************************************************)
NoRun == [state |-> "none", accepted |-> <<>>, writes |-> <<>>]
NewRun(atOrigin) == [state |-> IF atOrigin THEN "active" ELSE "none",
                     accepted |-> <<>>, writes |-> <<>>]

WriteSizes(ioSeq, f) ==
    LET w == SelectSeq(ioSeq, LAMBDA e : e[1] = "write" /\ e[2] = f)
    IN  [i \in 1..Len(w) |-> w[i][3]]

RunsAfterIo(rs, ioSeq) ==
    [f \in FileNames |->
        IF rs[f].state = "active"
        THEN [rs[f] EXCEPT !.writes = @ \o WriteSizes(ioSeq, f)]
        ELSE rs[f]]

RunsEnded(rs, f) ==
    IF rs[f].state = "active" THEN [rs EXCEPT ![f].state = "ended"] ELSE rs

Event(type, instr, addr, flag, taken) ==
    [type |-> type, instr |-> instr, addr |-> addr, flag |-> flag, taken |-> taken]
NoEvent == Event("", 0, 0, 0, 0)

Call(op, ev, in, stored, match) ==
    [op |-> op, ev |-> ev, in |-> in, stored |-> stored, match |-> match]

Live == fault = "none"

(***************************************************************************)
(* Tracing threads.  The buffer _entries is a member of TraceWriter, so a  *)
(* thread with a buffer of its own has a TraceWriter of its own, with its  *)
(* own stream and testcase id; _prefixMode, _sawFirstReturn, the metadata  *)
(* stream and the filter table are static members, one for the process.    *)
(***************************************************************************)
Threads == {1, 2}

\* The non-static members of a TraceWriter, and the files under its prefix.
Writer(s) ==
    [testcaseId |-> s.testcaseId, entries |-> s.entries, outputOpen |-> s.outputOpen,
     currentOutputFilename |-> s.currentOutputFilename, files |-> s.files]

\* After TraceWriter::TraceWriter.
NewWriter ==
    [testcaseId |-> InitialTestcaseId,
     entries |-> [i \in 0..(ENTRY_BUFFER_SIZE - 1) |-> UninitEntry],
     outputOpen |-> TRUE, currentOutputFilename |-> PrefixTraceFile,
     files |-> [f \in FileNames |-> <<>>]]

\* A thread inside a call: at names the statement it is about to run, seen is
\* the value of _sawFirstReturn it read, id the testcase id it was given.
ThreadIn(at, seen, id, w, ne) == [at |-> at, seen |-> seen, id |-> id, w |-> w, ne |-> ne]
ThreadAtRest(w, ne) == ThreadIn("idle", FALSE, InactiveTestcaseId, w, ne)

(***************************************************************************)
(* Initial state: after TraceWriter::TraceWriter (which opens the prefix   *)
(* trace file), with the static members zero-initialised, and the thread's *)
(* cursor either at Begin() or null (a thread that is not traced).         *)
(***************************************************************************)
Init ==
    /\ filterAddr = <<>>
    /\ prefixMode = FALSE
    /\ sawFirstReturn = FALSE
    /\ testcaseId = InitialTestcaseId
    /\ entries = [i \in 0..(ENTRY_BUFFER_SIZE - 1) |-> UninitEntry]
    /\ outputOpen = TRUE
    /\ currentOutputFilename = PrefixTraceFile
    /\ files = [f \in FileNames |-> <<>>]
    /\ prefixDataOpen = FALSE
    /\ prefixData = <<>>
    /\ stdout = <<>>
    /\ fault = "none"
    /\ nextEntry \in {Begin, NullPtr}
    /\ io = << <<"open", PrefixTraceFile, 0>> >>
    /\ last = Call("TraceWriter", NoEvent, NullPtr, FALSE, NoMatch)
    /\ runs = [f \in FileNames |-> NoRun]
    /\ hist = [by |-> "ctor", rets |-> 0, started |-> FALSE, transitioned |-> FALSE,
               idle |-> FALSE, stale |-> {}, starts |-> 0]
    /\ nInserts = 0
    /\ nCalls = 0
    /\ threads = [t \in Threads |-> ThreadAtRest(NewWriter, Begin)]

(***************************************************************************)
(* Actions: one call of a public function each.                            *)
(***************************************************************************)
\* An insertion call with the given set of outcomes.
Insert(op, ev, outcomes) ==
    /\ Live
    /\ \E r \in outcomes :
        /\ Commit(r.st)
        /\ nextEntry' = r.ret
        /\ last' = Call(op, ev, nextEntry, r.stored, r.match)
        /\ runs' = LET f == currentOutputFilename
                       rs1 == IF r.stored /\ TracingActive(State) /\ runs[f].state = "active"
                              THEN [runs EXCEPT ![f].accepted = Append(@, r.st.entries[nextEntry])]
                              ELSE runs
                   IN  RunsAfterIo(rs1, r.st.io)
        /\ hist' = LET h1 == IF op = "InsertRetBranchEntry"
                              THEN [hist EXCEPT !.rets = IF @ < 2 THEN @ + 1 ELSE @]
                              ELSE hist
                   IN  IF r.stored /\ hist.idle /\ ~TracingActive(State)
                       THEN [h1 EXCEPT !.stale = @ \cup {r.st.entries[nextEntry]}]
                       ELSE h1
    /\ nInserts' = nInserts + 1
    /\ UNCHANGED <<nCalls, threads>>

DoInsertMemoryRead(instr, addr, size) ==
    Insert("InsertMemoryReadEntry", Event("MemoryRead", instr, addr, 0, 0),
           InsertMemoryReadEntry(State, TraceWriterPtr, nextEntry, instr, addr, size))

DoInsertMemoryWrite(instr, addr, size) ==
    Insert("InsertMemoryWriteEntry", Event("MemoryWrite", instr, addr, 0, 0),
           InsertMemoryWriteEntry(State, TraceWriterPtr, nextEntry, instr, addr, size))

DoInsertHeapAllocSizeParameter(size) ==
    Insert("InsertHeapAllocSizeParameterEntry", Event("HeapAllocSizeParameter", 0, 0, 0, 0),
           InsertHeapAllocSizeParameterEntry(State, TraceWriterPtr, nextEntry, size))

DoInsertCallocSizeParameter(count, size) ==
    Insert("InsertCallocSizeParameterEntry", Event("HeapAllocSizeParameter", 0, 0, 0, 0),
           InsertCallocSizeParameterEntry(State, TraceWriterPtr, nextEntry, count, size))

DoInsertHeapAllocAddressReturn(addr) ==
    Insert("InsertHeapAllocAddressReturnEntry", Event("HeapAllocAddressReturn", 0, addr, 0, 0),
           InsertHeapAllocAddressReturnEntry(State, TraceWriterPtr, nextEntry, addr))

DoInsertHeapFreeAddressParameter(addr) ==
    Insert("InsertHeapFreeAddressParameterEntry",
           Event("HeapFreeAddressParameter", 0, addr, 0, 0),
           InsertHeapFreeAddressParameterEntry(State, TraceWriterPtr, nextEntry, addr))

DoInsertStackPointerModification(instr, sp, flags) ==
    Insert("InsertStackPointerModificationEntry",
           Event("StackPointerModification", instr, sp, flags, 0),
           InsertStackPointerModificationEntry(State, TraceWriterPtr, nextEntry, instr, sp, flags))

DoInsertStackPointerInfo(spMin, spMax) ==
    Insert("InsertStackPointerInfoEntry", Event("StackPointerInfo", spMin, spMax, 0, 0),
           InsertStackPointerInfoEntry(State, TraceWriterPtr, nextEntry, spMin, spMax))

DoInsertBranch(src, tgt, taken, type) ==
    Insert("InsertBranchEntry", Event("Branch", src, tgt, type, taken),
           InsertBranchEntry(State, TraceWriterPtr, nextEntry, src, tgt, taken, type))

DoInsertRetBranch(src, tgt) ==
    Insert("InsertRetBranchEntry", Event("Branch", src, tgt, BranchTypeReturn, 1),
           InsertRetBranchEntry(State, TraceWriterPtr, nextEntry, src, tgt))

\* A lifecycle call that leaves the cursor to the caller.
Lifecycle(op, s2) ==
    /\ Commit(s2)
    /\ last' = Call(op, NoEvent, nextEntry, FALSE, NoMatch)
    /\ nCalls' = nCalls + 1
    /\ UNCHANGED <<nInserts, threads>>

DoSetFilter(table) ==
    /\ Live
    /\ Lifecycle("SetFilter", SetFilter(State, table))
    /\ UNCHANGED <<nextEntry, runs, hist>>

DoInitPrefixMode ==
    /\ Live
    /\ LET s2 == InitPrefixMode(State)
           f == currentOutputFilename
       IN  /\ Lifecycle("InitPrefixMode", s2)
           /\ runs' = IF ~TracingActive(State) /\ Ok(s2) /\ outputOpen
                      THEN [runs EXCEPT ![f] = NewRun(nextEntry = Begin /\ files[f] = <<>>)]
                      ELSE runs
    /\ hist' = [hist EXCEPT !.by = "prefix", !.rets = 0, !.idle = FALSE]
    /\ UNCHANGED nextEntry

DoTestcaseStart(id) ==
    /\ Live
    /\ LET s2 == TestcaseStart(State, id, nextEntry)
           old == currentOutputFilename
           rs1 == RunsAfterIo(runs, s2.io)
           rs2 == IF prefixMode /\ ~s2.prefixMode THEN RunsEnded(rs1, old) ELSE rs1
       IN  /\ Lifecycle("TestcaseStart", s2)
           /\ \E c \in CallerCursorAfter(nextEntry) :
               /\ nextEntry' = c
               /\ runs' = IF Ok(s2)
                          THEN [rs2 EXCEPT ![TestcaseFile(id)] = NewRun(c = Begin)]
                          ELSE rs2
    /\ hist' = [hist EXCEPT !.by = "start", !.rets = 0, !.started = TRUE,
                            !.transitioned = hist.transitioned \/ prefixMode,
                            !.idle = FALSE, !.starts = @ + 1]

DoTestcaseEnd ==
    /\ Live
    /\ LET s2 == TestcaseEnd(State, nextEntry)
           rs1 == RunsAfterIo(runs, s2.io)
       IN  /\ Lifecycle("TestcaseEnd", s2)
           /\ runs' = IF Ok(s2) THEN RunsEnded(rs1, currentOutputFilename) ELSE rs1
           /\ hist' = [hist EXCEPT !.idle = Ok(s2)]
    /\ nextEntry' \in CallerCursorAfter(nextEntry)

DoWriteImageLoadData(interesting, startAddress, endAddress, name) ==
    /\ Live
    /\ Lifecycle("WriteImageLoadData",
                 WriteImageLoadData(State, interesting, startAddress, endAddress, name))
    /\ UNCHANGED <<nextEntry, runs, hist>>

\* A direct call of IsWhitelisted: it changes nothing but its flag argument.
DoIsWhitelisted(type, instr, addr, flag) ==
    /\ Live
    /\ last' = Call("IsWhitelisted", Event(type, instr, addr, flag, 0), nextEntry, FALSE,
                    Matched(IsWhitelisted(filterAddr, type, instr, addr, flag)))
    /\ io' = <<>>
    /\ nInserts' = nInserts + 1
    /\ UNCHANGED <<progVars, nextEntry, runs, hist, nCalls, threads>>

(***************************************************************************)
(* Inputs.                                                                 *)
(***************************************************************************)
Rule(type, originStart, originEnd, targetStart, targetEnd) ==
    [type |-> type, originStart |-> originStart, originEnd |-> originEnd,
     targetStart |-> targetStart, targetEnd |-> targetEnd]

\* Type masks: the sum of distinct bits is their bitwise or.
WhiteJump == FilterTypeWhiteList + FilterTypeControlFlow + FilterTypeJump
WhiteCall == FilterTypeWhiteList + FilterTypeControlFlow + FilterTypeCall
BlackCall == FilterTypeControlFlow + FilterTypeCall
WhiteCallLinearize == WhiteCall + FilterTypeLinearize
WhiteReturnOnly == FilterTypeWhiteList + FilterTypeControlFlow + FilterTypeReturn
WhiteCallReturn == WhiteCall + FilterTypeReturn
WhiteRead == FilterTypeWhiteList + FilterTypeDataAccess + FilterTypeRead
BlackRead == FilterTypeDataAccess + FilterTypeRead
WhiteWrite == FilterTypeWhiteList + FilterTypeDataAccess + FilterTypeWrite
WhiteDataJumpBit == FilterTypeWhiteList + FilterTypeDataAccess + FilterTypeJump

\* Applies to memory reads, calls and returns alike.
WhiteCallRead == WhiteCall + FilterTypeDataAccess + FilterTypeRead

TypePool == {WhiteJump, WhiteCall, BlackCall, WhiteCallLinearize, WhiteReturnOnly,
             WhiteCallReturn, WhiteRead, BlackRead, WhiteWrite, WhiteDataJumpBit}

\* <<originStart, originEnd, targetStart, targetEnd>>: all zero, one bound of a
\* range zero, one range constrained, both constrained.
RangePool == {<<0, 0, 0, 0>>, <<MaxAddr, 0, 0, 0>>, <<0, 0, MaxAddr, MaxAddr>>,
              <<MaxAddr, 0, 1, MaxAddr>>, <<0, 1, 0, MaxAddr>>,
              <<MaxAddr, MaxAddr, 1, 1>>}

RulePool ==
    {Rule(ty, 1, MaxAddr, 0, 0) : ty \in TypePool}
    \cup {Rule(WhiteCallRead, r[1], r[2], r[3], r[4]) : r \in RangePool}

FilterTables == UNION {[1..n -> RulePool] : n \in 0..MaxRules}

EventAddrs == 1..(MaxAddr + 1)
BranchTypes == {BranchTypeJump, BranchTypeCall, BranchTypeReturn}
\* <<kind, flag>> of the events IsWhitelisted is asked about.
FilterableEvents == {<<"MemoryRead", dataAccessFlags>>, <<"MemoryWrite", dataAccessFlags>>}
                    \cup {<<"Branch", b>> : b \in BranchTypes}

InertRule == Rule(WhiteRead, 0, 0, 0, 0)
\* The tables of the insertion specifications.
InsertTables == {<<>>, <<InertRule>>,
                 <<Rule(WhiteRead, 1, MaxAddr, 0, 0), Rule(WhiteCallLinearize, 1, MaxAddr, 0, 0)>>,
                 <<Rule(WhiteCall, 0, 0, 1, MaxAddr), Rule(WhiteCallLinearize, 1, MaxAddr, 0, 0)>>,
                 <<Rule(BlackCall, 1, MaxAddr, 0, 0), Rule(WhiteWrite, 1, MaxAddr, 0, 0)>>}

(***************************************************************************)
(* Spec: the file lifecycle and the buffer protocol, with no filter        *)
(* installed.  The k-th insertion is a memory read of address k, so all    *)
(* records differ and their order in a file can be told.                   *)
(***************************************************************************)
InitTraced == Init /\ nextEntry = Begin

Next ==
    \/ nCalls < MaxCalls /\ DoInitPrefixMode
    \/ nCalls < MaxCalls /\ \E id \in TestcaseIds : DoTestcaseStart(id)
    \/ nCalls < MaxCalls /\ DoTestcaseEnd
    \/ nCalls < MaxCalls /\ DoWriteImageLoadData(1, 1, MaxAddr, "image")
    \/ nInserts < MaxInserts /\ DoInsertMemoryRead(1, nInserts + 1, 4)

Spec == InitTraced /\ [][Next]_vars


(***************************************************************************)
(* SpecFilter: the filter engine alone.  A table is installed once, then   *)
(* IsWhitelisted is asked about one event.                                 *)
(***************************************************************************)
NextFilter ==
    \/ nCalls < 1 /\ nInserts < 1 /\ \E table \in FilterTables : DoSetFilter(table)
    \/ nInserts < 1 /\ \E e \in FilterableEvents, instr \in EventAddrs, addr \in EventAddrs :
                          DoIsWhitelisted(e[1], instr, addr, e[2])
    \/ nInserts < 1 /\ \E instr \in EventAddrs, addr \in EventAddrs :
                          DoInsertMemoryRead(instr, addr, 4)
    \/ nInserts < 1 /\ \E instr \in EventAddrs, addr \in EventAddrs :
                          DoInsertMemoryWrite(instr, addr, 4)
    \/ nInserts < 1 /\ \E instr \in EventAddrs, addr \in EventAddrs, type \in BranchTypes :
                          DoInsertBranch(instr, addr, 1, type)

SpecFilter == InitTraced /\ [][NextFilter]_vars

(***************************************************************************)
(* SpecInsert: every insertion function, from a traced or a non-traced     *)
(* thread, with or without a filter, tracing active or not, up to the      *)
(* first wrap of the cursor.                                               *)
(***************************************************************************)
NextInsert ==
    \/ nCalls < 1 /\ nInserts < 1 /\ \E table \in InsertTables : DoSetFilter(table)
    \/ ~prefixMode /\ nInserts < 1 /\ DoInitPrefixMode
    \/ nInserts < ENTRY_BUFFER_SIZE /\ DoInsertMemoryRead(1, 1, 4)
    \/ nInserts < ENTRY_BUFFER_SIZE /\ DoInsertMemoryWrite(1, 1, 4)
    \/ nInserts < ENTRY_BUFFER_SIZE /\ DoInsertHeapAllocSizeParameter(8)
    \/ nInserts < ENTRY_BUFFER_SIZE /\ DoInsertCallocSizeParameter(2, 4)
    \/ nInserts < ENTRY_BUFFER_SIZE /\ DoInsertHeapAllocAddressReturn(1)
    \/ nInserts < ENTRY_BUFFER_SIZE /\ DoInsertHeapFreeAddressParameter(1)
    \/ nInserts < ENTRY_BUFFER_SIZE /\ DoInsertStackPointerModification(1, 1, 0)
    \/ nInserts < ENTRY_BUFFER_SIZE /\ DoInsertStackPointerInfo(1, MaxAddr)
    \/ nInserts < ENTRY_BUFFER_SIZE /\ \E taken \in {0, 1}, type \in BranchTypes :
                                          DoInsertBranch(1, 1, taken, type)
    \/ nInserts < ENTRY_BUFFER_SIZE /\ DoInsertRetBranch(1, 1)
    \/ nInserts < ENTRY_BUFFER_SIZE /\ \E e \in FilterableEvents :
                                          DoIsWhitelisted(e[1], 1, 1, e[2])

SpecInsert == Init /\ [][NextInsert]_vars

(***************************************************************************)
(* SpecReturn: return branches over the file lifecycle, with or without a  *)
(* filter.  The k-th insertion is a return from address k.                 *)
(***************************************************************************)
NextReturn ==
    \/ nCalls < 1 /\ nInserts < 1 /\ \E table \in InsertTables : DoSetFilter(table)
    \/ nCalls < MaxCalls /\ DoInitPrefixMode
    \/ nCalls < MaxCalls /\ \E id \in TestcaseIds : DoTestcaseStart(id)
    \/ nCalls < MaxCalls /\ DoTestcaseEnd
    \/ nInserts < MaxInserts /\ DoInsertRetBranch(1 + (nInserts % MaxAddr), 1)

SpecReturn == InitTraced /\ [][NextReturn]_vars

(***************************************************************************)
(* SpecDiscard: the lifecycle and the buffer protocol of Spec, with a host *)
(* that restarts its cursor at Begin() when it has called TestcaseStart.   *)
(***************************************************************************)
RestartAtBegin == nextEntry' = Begin

NextDiscard ==
    \/ nCalls < MaxCalls /\ DoInitPrefixMode
    \/ nCalls < MaxCalls /\ \E id \in TestcaseIds : DoTestcaseStart(id) /\ RestartAtBegin
    \/ nCalls < MaxCalls /\ DoTestcaseEnd
    \/ nInserts < MaxInserts /\ DoInsertMemoryRead(1, nInserts + 1, 4)

SpecDiscard == InitTraced /\ [][NextDiscard]_vars

(***************************************************************************)
(* SpecThreads: two tracing threads, each with its own TraceWriter and     *)
(* cursor, calling TestcaseStart, TestcaseEnd and InsertRetBranchEntry.    *)
(* A step runs the statements of one thread up to its next access to a     *)
(* static member that another thread may write; the threads are            *)
(* interleaved freely, as nothing in TraceWriter.cpp orders them.          *)
(***************************************************************************)
\* The calls the threads make between them.
MaxThreadInserts == MaxInserts - 2
MaxThreadCalls == MaxCalls - 1

\* The state thread t runs on: the static members, and its own writer.
ThreadState(t) ==
    [State EXCEPT !.testcaseId = threads[t].w.testcaseId,
                  !.entries = threads[t].w.entries,
                  !.outputOpen = threads[t].w.outputOpen,
                  !.currentOutputFilename = threads[t].w.currentOutputFilename,
                  !.files = threads[t].w.files]

\* Thread t has run up to statement at, leaving state s and cursor ne.
ThreadCommit(t, s, at, seen, id, ne) ==
    /\ filterAddr' = s.filterAddr
    /\ prefixMode' = s.prefixMode
    /\ sawFirstReturn' = s.sawFirstReturn
    /\ prefixDataOpen' = s.prefixDataOpen
    /\ prefixData' = s.prefixData
    /\ stdout' = s.stdout
    /\ fault' = s.fault
    /\ threads' = [threads EXCEPT ![t] = ThreadIn(at, seen, id, Writer(s), ne)]
    /\ UNCHANGED <<testcaseId, entries, outputOpen, currentOutputFilename, files,
                   nextEntry, io, last, runs, hist>>

\* InitPrefixMode, called once before the threads trace.
ThreadsInitPrefixMode ==
    /\ Live
    /\ nCalls = 0 /\ nInserts = 0
    /\ \A t \in Threads : threads[t].at = "idle"
    /\ LET s == InitPrefixMode(State)
       IN  /\ Commit(s)
           /\ last' = Call("InitPrefixMode", NoEvent, NullPtr, FALSE, NoMatch)
    /\ nCalls' = nCalls + 1
    /\ UNCHANGED <<nextEntry, runs, hist, nInserts, threads>>

\* InsertRetBranchEntry: if(!_sawFirstReturn)
ThreadRetTest(t) ==
    /\ Live
    /\ threads[t].at = "idle"
    /\ ThreadCommit(t, ThreadState(t), "ret", sawFirstReturn, threads[t].id, threads[t].ne)
    /\ nInserts' = nInserts + 1
    /\ UNCHANGED nCalls

\* InsertRetBranchEntry: the branch taken on the value read.
ThreadRetAct(t) ==
    /\ Live
    /\ threads[t].at = "ret"
    /\ LET s == ThreadState(t)
           ne == threads[t].ne
           outcomes == IF ~threads[t].seen
                       THEN Rejected([s EXCEPT !.sawFirstReturn = TRUE], ne, NoMatch)
                       ELSE InsertBranchEntry(s, TraceWriterPtr, ne, nInserts, 1, 1,
                                              BranchTypeReturn)
       IN  \E r \in outcomes : ThreadCommit(t, r.st, "idle", FALSE, threads[t].id, r.ret)
    /\ UNCHANGED <<nInserts, nCalls>>

\* TestcaseStart: the implicit TestcaseEnd of prefix mode.
ThreadStartExitPrefix(t, id) ==
    /\ Live
    /\ threads[t].at = "idle"
    /\ ThreadCommit(t, TestcaseStartExitPrefix(ThreadState(t), threads[t].ne),
                    "start", FALSE, id, threads[t].ne)
    /\ nCalls' = nCalls + 1
    /\ UNCHANGED nInserts

\* TestcaseStart: the assignments and the open.
ThreadStartOpen(t) ==
    /\ Live
    /\ threads[t].at = "start"
    /\ \E c \in CallerCursorAfter(threads[t].ne) :
          ThreadCommit(t, TestcaseStartOpen(ThreadState(t), threads[t].id),
                       "idle", FALSE, threads[t].id, c)
    /\ UNCHANGED <<nInserts, nCalls>>

\* TestcaseEnd: the flush and the close.
ThreadEndFlushClose(t) ==
    /\ Live
    /\ threads[t].at = "idle"
    /\ ThreadCommit(t, TestcaseEndFlushClose(ThreadState(t), threads[t].ne),
                    "end", FALSE, threads[t].id, threads[t].ne)
    /\ nCalls' = nCalls + 1
    /\ UNCHANGED nInserts

\* TestcaseEnd: the rest.
ThreadEndFinish(t) ==
    /\ Live
    /\ threads[t].at = "end"
    /\ \E c \in CallerCursorAfter(threads[t].ne) :
          ThreadCommit(t, TestcaseEndFinish(ThreadState(t)), "idle", FALSE, threads[t].id, c)
    /\ UNCHANGED <<nInserts, nCalls>>

NextThreads ==
    \/ ThreadsInitPrefixMode
    \/ \E t \in Threads : nInserts < MaxThreadInserts /\ ThreadRetTest(t)
    \/ \E t \in Threads : ThreadRetAct(t)
    \/ \E t \in Threads, id \in TestcaseIds : nCalls < MaxThreadCalls /\ ThreadStartExitPrefix(t, id)
    \/ \E t \in Threads : ThreadStartOpen(t)
    \/ \E t \in Threads : nCalls < MaxThreadCalls /\ ThreadEndFlushClose(t)
    \/ \E t \in Threads : ThreadEndFinish(t)

SpecThreads == InitTraced /\ [][NextThreads]_vars

(***************************************************************************)
(* Properties.                                                             *)
(***************************************************************************)
\* n / C stream writes of C records each.
FullFlushes(n) == [i \in 1..(n \div ENTRY_BUFFER_SIZE) |-> ENTRY_BUFFER_SIZE]

\* The last n % C of the accepted entries.
Trailing(acc) ==
    SubSeq(acc, Len(acc) - (Len(acc) % ENTRY_BUFFER_SIZE) + 1, Len(acc))

(***************************************************************************)
(* C1: with a single writer, no filter, tracing active throughout and the  *)
(* cursor starting at the buffer origin on an empty file: whenever the     *)
(* number N of entries appended so far is a multiple of the capacity C,    *)
(* exactly N / C stream writes have occurred on the file, each of exactly  *)
(* C records, the file holds exactly the N records, and (while the file is *)
(* still the open one) the cursor is back at the buffer origin; the        *)
(* TestcaseEnd that follows adds no write.                                 *)
(***************************************************************************)
C1_FullBuffersFlushed ==
    \A f \in FileNames :
        LET n == Len(runs[f].accepted)
        IN  (runs[f].state \in {"active", "ended"} /\ n % ENTRY_BUFFER_SIZE = 0)
            => /\ runs[f].writes = FullFlushes(n)
               /\ Len(files[f]) = n
               /\ files[f] = runs[f].accepted
               /\ (Live /\ runs[f].state = "active")
                  => (f = currentOutputFilename /\ outputOpen /\ nextEntry = Begin)

\* Two full buffers have been appended and flushed, the file still open.
C1_Witness ==
    \E f \in FileNames :
        /\ Live
        /\ runs[f].state = "active"
        /\ Len(runs[f].accepted) = 2 * ENTRY_BUFFER_SIZE
        /\ runs[f].writes = <<ENTRY_BUFFER_SIZE, ENTRY_BUFFER_SIZE>>
        /\ last.op = "InsertMemoryReadEntry"

(***************************************************************************)
(* C2: no accepted entry is lost or reordered.  While a file is being      *)
(* traced (from the buffer origin) with N entries appended, N a multiple   *)
(* of C or not, the file holds the first N - (N mod C)                     *)
(* of them in append order and the trailing N mod C are in the buffer      *)
(* below the cursor; once TestcaseEnd (or the prefix-to-testcase           *)
(* transition) has closed the file, the last write was of exactly those    *)
(* trailing entries and the file holds exactly the N entries, each once,   *)
(* in append order.                                                        *)
(***************************************************************************)
C2_NoEntryLostOrReordered ==
    \A f \in FileNames :
        LET acc == runs[f].accepted
            n == Len(acc)
            r == n % ENTRY_BUFFER_SIZE
        IN  /\ (Live /\ runs[f].state = "active")
               => /\ f = currentOutputFilename /\ outputOpen
                  /\ nextEntry = r
                  /\ files[f] = SubSeq(acc, 1, n - r)
                  /\ BufferUpTo(State, nextEntry) = Trailing(acc)
                  /\ runs[f].writes = FullFlushes(n)
            /\ runs[f].state = "ended"
               => /\ files[f] = acc
                  /\ runs[f].writes = FullFlushes(n) \o (IF r = 0 THEN <<>> ELSE <<r>>)
            /\ runs[f].state \in {"active", "ended"}
               => \A i, j \in 1..n : acc[i] = acc[j] => i = j

\* A closed file of more than one buffer with a partial last buffer.
C2_Witness ==
    \E f \in FileNames :
        /\ runs[f].state = "ended"
        /\ Len(runs[f].accepted) > ENTRY_BUFFER_SIZE
        /\ Len(runs[f].accepted) % ENTRY_BUFFER_SIZE # 0
        /\ files[f] = runs[f].accepted

(***************************************************************************)
(* The filter rules as the properties read them.                           *)
(***************************************************************************)
HasBit(mask, bit) == (mask \div bit) % 2 = 1

\* A range with a zero bound is unconstrained.
ZeroBound(lo, hi) == lo = 0 \/ hi = 0
InRange(lo, hi, x) == ZeroBound(lo, hi) \/ (lo <= x /\ x <= hi)
IsInert(r) == ZeroBound(r.originStart, r.originEnd) /\ ZeroBound(r.targetStart, r.targetEnd)

\* The two-bit sub-type field of a branch flag.
SubType(flag) == 2 * ((flag \div 2) % 4)

TypeApplies(r, ev) ==
    \/ ev.type = "MemoryRead"
       /\ HasBit(r.type, FilterTypeDataAccess) /\ HasBit(r.type, FilterTypeRead)
    \/ ev.type = "MemoryWrite"
       /\ HasBit(r.type, FilterTypeDataAccess) /\ HasBit(r.type, FilterTypeWrite)
    \/ ev.type = "Branch" /\ SubType(ev.flag) = BranchTypeJump
       /\ HasBit(r.type, FilterTypeControlFlow) /\ HasBit(r.type, FilterTypeJump)
    \/ ev.type = "Branch" /\ SubType(ev.flag) \in {BranchTypeCall, BranchTypeReturn}
       /\ HasBit(r.type, FilterTypeControlFlow) /\ HasBit(r.type, FilterTypeCall)

RangesMatch(r, ev) ==
    /\ InRange(r.originStart, r.originEnd, ev.instr)
    /\ InRange(r.targetStart, r.targetEnd, ev.addr)

\* Index of the first rule that is not inert, matches and applies; 0 if none.
FirstApplicable(filter, ev) ==
    LET c == {i \in 1..Len(filter) :
                 ~IsInert(filter[i]) /\ RangesMatch(filter[i], ev) /\ TypeApplies(filter[i], ev)}
    IN  IF c = {} THEN 0 ELSE CHOOSE i \in c : \A j \in c : i <= j

FilteredInsertOps == {"InsertMemoryReadEntry", "InsertMemoryWriteEntry", "InsertBranchEntry"}

(***************************************************************************)
(* C3: first matching rule wins.  For every non-empty table and every      *)
(* filterable event, the scan is decided by the first rule in table order  *)
(* that is not inert, whose two ranges match and whose type applies to the *)
(* event; the result is that rule's whitelist bit, whatever the rules      *)
(* after it say, and rules before it whose ranges match but whose type     *)
(* does not apply are passed over.  An insertion stores the event exactly  *)
(* when that bit is set.                                                   *)
(***************************************************************************)
C3_FirstMatchingRuleWins ==
    (last.match.called /\ filterAddr # <<>>)
    => LET k == FirstApplicable(filterAddr, last.ev)
       IN  /\ last.match.decided = k
           /\ k # 0 => (last.match.allow <=> HasBit(filterAddr[k].type, FilterTypeWhiteList))
           /\ last.op \in FilteredInsertOps => (last.stored <=> last.match.allow)

\* A blacklist rule decides although a later rule would whitelist the event,
\* after a rule whose ranges match but whose type does not apply.
C3_Witness ==
    /\ last.match.called
    /\ Len(filterAddr) = 2
    /\ last.match.decided = 1
    /\ ~last.match.allow
    /\ ~IsInert(filterAddr[2])
    /\ RangesMatch(filterAddr[2], last.ev)
    /\ TypeApplies(filterAddr[2], last.ev)
    /\ HasBit(filterAddr[2].type, FilterTypeWhiteList)

(***************************************************************************)
(* C4: empty table versus no match.  With an empty table IsWhitelisted     *)
(* returns true for every event and leaves the flag as it was; with a      *)
(* non-empty table in which no rule matches the event (a table of inert    *)
(* rules only included) it returns false with the flag as it was, and the  *)
(* insertion records nothing.                                              *)
(***************************************************************************)
C4_EmptyTableVersusNoMatch ==
    /\ (last.op = "IsWhitelisted" /\ filterAddr = <<>>)
       => (last.match.allow /\ last.match.flag = last.ev.flag)
    /\ (last.match.called /\ filterAddr # <<>> /\ FirstApplicable(filterAddr, last.ev) = 0)
       => /\ ~last.match.allow
          /\ last.match.flag = last.ev.flag
          /\ last.op \in FilteredInsertOps
             => /\ ~last.stored
                /\ nextEntry = last.in
                /\ \A i \in DOMAIN entries : entries[i] = UninitEntry
                /\ io = <<>>

\* An insertion under a table of inert rules only: nothing is recorded.
C4_Witness ==
    /\ last.op \in FilteredInsertOps
    /\ last.match.called
    /\ filterAddr # <<>>
    /\ \A i \in 1..Len(filterAddr) : IsInert(filterAddr[i])
    /\ ~last.match.allow
    /\ ~last.stored

\* The rules a scan looked at: up to the deciding one, or all.
Scanned(m) == 1..(IF m.decided = 0 THEN Len(filterAddr) ELSE m.decided)

\* A range is unconstrained only when both of its bounds are zero.
InRangeBothZero(lo, hi, x) == (lo = 0 /\ hi = 0) \/ (lo <= x /\ x <= hi)

AllFourZero(r) ==
    r.originStart = 0 /\ r.originEnd = 0 /\ r.targetStart = 0 /\ r.targetEnd = 0

(***************************************************************************)
(* C5: a rule is skipped as inert if and only if all four of    *)
(* its bounds are zero, and a range is unconstrained only when both of its *)
(* bounds are zero, so every rule with a non-zero bound has its ranges     *)
(* tested against the event.                                               *)
(***************************************************************************)
C5_InertIffAllFourZero ==
    (last.match.called /\ filterAddr # <<>>)
    => \A i \in Scanned(last.match) :
          LET r == filterAddr[i]
          IN  /\ i \in last.match.skipped <=> AllFourZero(r)
              /\ i \notin last.match.skipped
                 => (i \in last.match.failed
                     <=> ~(/\ InRangeBothZero(r.originStart, r.originEnd, last.ev.instr)
                           /\ InRangeBothZero(r.targetStart, r.targetEnd, last.ev.addr)))

(***************************************************************************)
(* C5, with inert and unconstrained as the scan has them: a rule is        *)
(* skipped as inert if and only if each of its two ranges has at least one *)
(* zero bound, and a range is unconstrained as soon as one of its bounds   *)
(* is zero; so exactly the rules with a range whose two bounds are both    *)
(* non-zero take part in matching, and of such a rule only the ranges with *)
(* two non-zero bounds are tested against the event.                       *)
(***************************************************************************)
C5_InertIffEachRangeHasZeroBound ==
    (last.match.called /\ filterAddr # <<>>)
    => \A i \in Scanned(last.match) :
          LET r == filterAddr[i]
          IN  /\ i \in last.match.skipped
                 <=> (ZeroBound(r.originStart, r.originEnd)
                      /\ ZeroBound(r.targetStart, r.targetEnd))
              /\ i \notin last.match.skipped
                 => (i \in last.match.failed <=> ~RangesMatch(r, last.ev))

\* A rule whose origin range has one zero bound decides an event: its origin
\* range was not tested, its target range was.
C5_Witness ==
    /\ last.match.called
    /\ last.match.decided # 0
    /\ LET r == filterAddr[last.match.decided]
       IN  /\ r.originStart # 0 /\ r.originEnd = 0
           /\ r.targetStart # 0 /\ r.targetEnd # 0
           /\ last.ev.instr < r.originStart

\* The taken bit of a branch flag.
TakenBit(flag) == flag % 2

(***************************************************************************)
(* C6: linearization rewrite.  A Branch event of sub-type Call whose first *)
(* applicable rule is a whitelist ControlFlow+Call rule is recorded; with  *)
(* Linearize set on that rule the recorded sub-type is Jump, without it    *)
(* the recorded sub-type is Call; in both cases the recorded taken bit is  *)
(* the one of the event.                                                   *)
(***************************************************************************)
C6_LinearizationRewrite ==
    (/\ last.op = "InsertBranchEntry"
     /\ SubType(last.ev.flag) = BranchTypeCall
     /\ last.in # NullPtr
     /\ filterAddr # <<>>
     /\ FirstApplicable(filterAddr, last.ev) # 0
     /\ HasBit(filterAddr[FirstApplicable(filterAddr, last.ev)].type, FilterTypeWhiteList))
    => LET r == filterAddr[FirstApplicable(filterAddr, last.ev)]
           e == entries[last.in]
       IN  /\ last.stored
           /\ e.Type = "Branch"
           /\ SubType(e.Flag) = IF HasBit(r.type, FilterTypeLinearize)
                                THEN BranchTypeJump ELSE BranchTypeCall
           /\ TakenBit(e.Flag) = (IF last.ev.taken = 0 THEN 0 ELSE 1)
           /\ e.Flag < 8

\* A not-taken call admitted by a linearizing rule, recorded as a not-taken jump.
C6_Witness ==
    /\ last.op = "InsertBranchEntry"
    /\ last.ev.flag = BranchTypeCall
    /\ last.ev.taken = 0
    /\ last.stored
    /\ last.match.called
    /\ HasBit(filterAddr[last.match.decided].type, FilterTypeLinearize)
    /\ entries[last.in].Flag = BranchTypeJump

HeapAndStackOps ==
    {"InsertHeapAllocSizeParameterEntry", "InsertCallocSizeParameterEntry",
     "InsertHeapAllocAddressReturnEntry", "InsertHeapFreeAddressParameterEntry",
     "InsertStackPointerModificationEntry"}

\* The step is a call of one of the given insertion functions.
InsertStepOf(ops) == last'.op \in ops /\ nInserts' = nInserts + 1

(***************************************************************************)
(* C7: the heap-lifecycle insertions and the StackPointerModification      *)
(* insertion write no record and return the cursor unchanged whenever the  *)
(* filter table is non-empty, whatever it holds; with an empty table (and  *)
(* a cursor into the buffer) each of them writes exactly one record, of    *)
(* its own kind, into the slot at the cursor and moves the cursor on by    *)
(* one slot.                                                               *)
(***************************************************************************)
C7_HeapAndStackSuppressedByAnyFilter ==
    [][InsertStepOf(HeapAndStackOps)
       => IF filterAddr # <<>>
          THEN /\ nextEntry' = nextEntry
               /\ entries' = entries
               /\ files' = files
               /\ io' = <<>>
               /\ ~last'.stored
               /\ fault' = "none"
          ELSE nextEntry # NullPtr
               => /\ last'.stored
                  /\ entries'[nextEntry].Type = last'.ev.type
                  /\ \A i \in DOMAIN entries : i # nextEntry => entries'[i] = entries[i]
                  /\ nextEntry' = (nextEntry + 1) % ENTRY_BUFFER_SIZE
                  /\ fault' = "none"]_vars

\* A stack-pointer modification dropped because the table holds one inert rule.
C7_Witness ==
    /\ last.op = "InsertStackPointerModificationEntry"
    /\ filterAddr = <<InertRule>>
    /\ last.in # NullPtr
    /\ ~last.stored
    /\ nextEntry = last.in

\* The return-branch insertion returned at once: no filter lookup, no record.
ReturnSuppressed == ~last.stored /\ ~last.match.called /\ nextEntry = last.in /\ io = <<>>

\* The return-branch insertion went on to record the branch, subject to the filter.
ReturnRecorded ==
    /\ filterAddr # <<>> => last.match.called
    /\ last.stored <=> (filterAddr = <<>> \/ last.match.allow)
    /\ last.stored
       => /\ entries[last.in].Type = "Branch"
          /\ SubType(entries[last.in].Flag) = BranchTypeReturn
          /\ entries[last.in].Param1 = last.ev.instr
    /\ ~last.stored => nextEntry = last.in

(***************************************************************************)
(* C8: first-return suppression is one-shot per testcase.  The first       *)
(* return-branch insertion after a TestcaseStart writes no entry and       *)
(* returns the cursor unchanged; the second and every later one of that    *)
(* testcase is recorded, subject only to the filter; every TestcaseStart   *)
(* arms the suppression again; after InitPrefixMode no return is           *)
(* suppressed until the next TestcaseStart.                                *)
(***************************************************************************)
C8_FirstReturnSuppressedOncePerTestcase ==
    /\ (last.op = "InsertRetBranchEntry" /\ hist.by = "start" /\ hist.rets = 1)
       => ReturnSuppressed
    /\ (last.op = "InsertRetBranchEntry" /\ hist.by = "start" /\ hist.rets >= 2)
       => ReturnRecorded
    /\ (last.op = "InsertRetBranchEntry" /\ hist.by = "prefix")
       => ReturnRecorded
    /\ (last.op = "TestcaseStart" /\ Live) => ~sawFirstReturn

\* In a second testcase: the first return was suppressed again, the second is
\* recorded through a non-empty filter table.
C8_Witness ==
    /\ last.op = "InsertRetBranchEntry"
    /\ hist.by = "start"
    /\ hist.rets = 2
    /\ filterAddr # <<>>
    /\ last.stored
    /\ testcaseId # InactiveTestcaseId

InsertOps ==
    HeapAndStackOps \cup FilteredInsertOps
    \cup {"InsertStackPointerInfoEntry", "InsertRetBranchEntry"}

(***************************************************************************)
(* C9: a null cursor propagates unchanged through every insertion          *)
(* operation, for every filter table including the empty one: the call    *)
(* returns a null cursor, writes no record to any buffer slot, triggers no *)
(* flush and raises no error.                                              *)
(***************************************************************************)
C9_NullCursorPropagates ==
    (last.op \in InsertOps /\ last.in = NullPtr)
    => /\ nextEntry = NullPtr
       /\ ~last.stored
       /\ \A i \in DOMAIN entries : entries[i] = UninitEntry
       /\ io = <<>>
       /\ fault = "none"

\* The step is a call of the given lifecycle function.
CallStepOf(op) == last'.op = op /\ nCalls' = nCalls + 1

\* TestcaseStart in prefix mode with the prefix trace file open: the rest of
\* the buffer is written to it, it is closed, the metadata file is closed and
\* prefix mode cleared, and only then the testcase file is opened.
TransitionOrder ==
    (/\ CallStepOf("TestcaseStart")
     /\ prefixMode /\ outputOpen /\ currentOutputFilename = PrefixTraceFile)
    => LET new == TestcaseFile(testcaseId')
       IN  /\ fault' = "none"
           /\ io' = (IF nextEntry # Begin
                     THEN << <<"write", PrefixTraceFile, nextEntry>> >> ELSE <<>>)
                    \o << <<"close", PrefixTraceFile, 0>>,
                          <<"closeMeta", "prefix_data.txt", 0>>,
                          <<"open", new, 0>> >>
           /\ files'[PrefixTraceFile] = files[PrefixTraceFile] \o BufferUpTo(State, nextEntry)
           /\ ~prefixMode' /\ ~prefixDataOpen'
           /\ outputOpen' /\ currentOutputFilename' = new
           /\ prefixData' = prefixData

\* The image-load call changed nothing.
ImageLoadIgnored == prefixData' = prefixData /\ io' = <<>> /\ fault' = "none"

(***************************************************************************)
(* C10: TestcaseStart called while prefix mode is active (taken with the   *)
(* prefix trace file open) first writes all buffered entries to the prefix *)
(* trace file, closes that file, closes the metadata file and clears       *)
(* prefix mode, and only then opens the new testcase file; every           *)
(* image-load-metadata call after that transition is ignored and appends   *)
(* no line to the metadata file.                                           *)
(***************************************************************************)
C10_ModeTransition ==
    [][/\ TransitionOrder
       /\ (CallStepOf("WriteImageLoadData") /\ hist.transitioned) => ImageLoadIgnored]_vars

(***************************************************************************)
(* What holds of C10: the order of the transition, and image-load calls    *)
(* being ignored from the transition up to the next InitPrefixMode call.   *)
(***************************************************************************)
ModeTransitionUntilInitPrefixMode ==
    [][/\ TransitionOrder
       /\ (CallStepOf("WriteImageLoadData") /\ hist.transitioned /\ hist.by = "start")
          => ImageLoadIgnored]_vars

\* After a transition that wrote entries to the prefix file, an image-load
\* call was ignored.
ModeTransitionReached ==
    /\ Live
    /\ last.op = "WriteImageLoadData"
    /\ hist.transitioned
    /\ hist.by = "start"
    /\ io = <<>>
    /\ prefixData = <<>>
    /\ files[PrefixTraceFile] # <<>>
    /\ ~prefixMode

\* No stream write among the file operations of a call.
NoWriteIn(ioSeq) == \A i \in 1..Len(ioSeq) : ioSeq[i][1] # "write"

\* The records found in some trace file.
InFiles == UNION {{files[f][i] : i \in 1..Len(files[f])} : f \in FileNames}

\* Entries stored between a TestcaseEnd and the next start that reached a file.
StaleInFiles == hist.stale \cap InFiles

C12_PrefixModeOffAfterFirstTestcaseStart ==
    (Live /\ hist.started) => ~prefixMode

\* The files closed by the call of a step, in order.
ClosedIn(ioSeq) ==
    LET c == SelectSeq(ioSeq, LAMBDA e : e[1] = "close")
    IN  [i \in 1..Len(c) |-> c[i][2]]

C14_OneOutputFileOpenWhileActive ==
    (Live /\ TracingActive(State)) => outputOpen

(***************************************************************************)
(* C15: with several tracing threads, TestcaseStart, TestcaseEnd and the   *)
(* flush are serialized on the process-wide state, each atomic with        *)
(* respect to the others: no interleaving of two threads lets the          *)
(* first-return flag be consumed or reset by another thread's operation    *)
(* between a thread's test of the flag and what the thread does on it.     *)
(***************************************************************************)
C15_FirstReturnFlagNotTouchedMidStep ==
    \A t \in Threads :
        (Live /\ threads[t].at = "ret") => sawFirstReturn = threads[t].seen

\* A rule tagged ControlFlow and Call, whatever its other bits.
CallTagged(r) == HasBit(r.type, FilterTypeControlFlow) /\ HasBit(r.type, FilterTypeCall)

\* Index of the first rule that is not inert, matches and is tagged
\* ControlFlow and Call; 0 if none.
FirstCallTagged(filter, ev) ==
    LET c == {i \in 1..Len(filter) :
                 ~IsInert(filter[i]) /\ RangesMatch(filter[i], ev) /\ CallTagged(filter[i])}
    IN  IF c = {} THEN 0 ELSE CHOOSE i \in c : \A j \in c : i <= j

\* The last call asked a non-empty table about a branch of the given sub-types.
BranchAsked(subTypes) ==
    /\ last.match.called
    /\ filterAddr # <<>>
    /\ last.ev.type = "Branch"
    /\ SubType(last.ev.flag) \in subTypes

(***************************************************************************)
(* C16: a Branch event of sub-type Return is matched by the rules tagged   *)
(* ControlFlow and Call: the first such rule that is not inert and whose   *)
(* ranges match decides, the result is its whitelist bit and the flag is   *)
(* left as it was.  The Return bit of a rule is never consulted: a rule    *)
(* tagged ControlFlow and Return without Call decides no Return event, a   *)
(* rule with Call decides it with or without the Return bit, and a rule    *)
(* tagged ControlFlow and Jump only decides no Return and no Call event.   *)
(***************************************************************************)
C16_ReturnMatchedByCallRule ==
    /\ BranchAsked({BranchTypeReturn})
       => LET k == FirstCallTagged(filterAddr, last.ev)
          IN  /\ last.match.decided = k
              /\ last.match.flag = last.ev.flag
              /\ last.match.allow
                 <=> (k # 0 /\ HasBit(filterAddr[k].type, FilterTypeWhiteList))
    /\ (BranchAsked({BranchTypeReturn, BranchTypeCall}) /\ last.match.decided # 0)
       => HasBit(filterAddr[last.match.decided].type, FilterTypeCall)

\* A return was passed over by a matching rule tagged ControlFlow and Return,
\* decided by the rule tagged ControlFlow and Call after it, and stored with
\* its flag.
C16_Witness ==
    /\ BranchAsked({BranchTypeReturn})
    /\ last.op = "InsertBranchEntry"
    /\ Len(filterAddr) = 2
    /\ filterAddr[1].type = WhiteReturnOnly
    /\ ~IsInert(filterAddr[1]) /\ RangesMatch(filterAddr[1], last.ev)
    /\ filterAddr[2].type = WhiteCall
    /\ last.match.decided = 2
    /\ last.match.allow
    /\ last.stored
    /\ entries[last.in].Flag = BitOr(BranchTypeReturn, BranchTaken)

\* The last call asked a non-empty table about a data access of the given kinds.
DataAsked(kinds) ==
    /\ last.match.called
    /\ filterAddr # <<>>
    /\ last.ev.type \in kinds

\* Index of the first rule that is not inert, matches and has all the given
\* bits; 0 if none.
FirstTagged(filter, ev, bits) ==
    LET c == {i \in 1..Len(filter) :
                 /\ ~IsInert(filter[i]) /\ RangesMatch(filter[i], ev)
                 /\ \A b \in bits : HasBit(filter[i].type, b)}
    IN  IF c = {} THEN 0 ELSE CHOOSE i \in c : \A j \in c : i <= j

(***************************************************************************)
(* C17: in the filter type encoding Jump and Read occupy the same bit and  *)
(* Linearize and Write occupy the same bit, stated by what follows from    *)
(* it: a rule whose bits are DataAccess plus the Linearize bit matches     *)
(* MemoryWrite events and not MemoryRead events, and a rule whose bits are *)
(* DataAccess plus the Jump bit matches MemoryRead events.                 *)
(***************************************************************************)
C17_JumpSharesReadBit ==
    /\ DataAsked({"MemoryWrite"})
       => last.match.decided
          = FirstTagged(filterAddr, last.ev, {FilterTypeDataAccess, FilterTypeLinearize})
    /\ DataAsked({"MemoryRead"})
       => last.match.decided
          = FirstTagged(filterAddr, last.ev, {FilterTypeDataAccess, FilterTypeJump})

(***************************************************************************)
(* C17, as the code has it: Linearize and Read occupy the same bit, Jump   *)
(* and Write share a bit with no other sub-type.  A MemoryRead is decided  *)
(* by the first matching rule with the DataAccess bit and the Linearize    *)
(* (Read) bit, a MemoryWrite by the first with the DataAccess bit and the  *)
(* Write bit, so a rule of DataAccess plus the Linearize bit matches       *)
(* MemoryRead and not MemoryWrite, and a rule of DataAccess plus the Jump  *)
(* bit matches neither.  Data sub-bits count only with the DataAccess bit  *)
(* and control-flow sub-bits only with the ControlFlow bit.                *)
(***************************************************************************)
C17_LinearizeSharesReadBit ==
    /\ FilterTypeLinearize = FilterTypeRead
    /\ FilterTypeJump \notin {FilterTypeCall, FilterTypeReturn, FilterTypeRead, FilterTypeWrite}
    /\ FilterTypeWrite \notin {FilterTypeCall, FilterTypeReturn, FilterTypeLinearize}
    /\ DataAsked({"MemoryRead"})
       => last.match.decided
          = FirstTagged(filterAddr, last.ev, {FilterTypeDataAccess, FilterTypeLinearize})
    /\ DataAsked({"MemoryWrite"})
       => last.match.decided
          = FirstTagged(filterAddr, last.ev, {FilterTypeDataAccess, FilterTypeWrite})
    /\ (DataAsked({"MemoryRead", "MemoryWrite"}) /\ last.match.decided # 0)
       => filterAddr[last.match.decided].type # WhiteDataJumpBit
    /\ (BranchAsked(BranchTypes) /\ last.match.decided # 0)
       => HasBit(filterAddr[last.match.decided].type, FilterTypeControlFlow)

\* A memory read was passed over by a matching rule of DataAccess plus the
\* Jump bit, decided by the rule of DataAccess plus the Linearize bit after it,
\* and stored.
C17_Witness ==
    /\ DataAsked({"MemoryRead"})
    /\ last.op = "InsertMemoryReadEntry"
    /\ Len(filterAddr) = 2
    /\ filterAddr[1].type = WhiteDataJumpBit
    /\ ~IsInert(filterAddr[1]) /\ RangesMatch(filterAddr[1], last.ev)
    /\ filterAddr[2].type
       = FilterTypeWhiteList + FilterTypeDataAccess + FilterTypeLinearize
    /\ last.match.decided = 2
    /\ last.stored

\* The slots of the buffer.
Slots == Begin..(End - 1)

(***************************************************************************)
(* C18: cursor bound.  For a non-null writer and a cursor that starts at   *)
(* the buffer origin, after any sequence of insertion calls (any kinds,    *)
(* any filter table, tracing active or not) the cursor returned to the     *)
(* caller is a slot index in [0, C-1], never C.  A call that stores        *)
(* writes the slot under the cursor and no other, and returns the next     *)
(* slot, the origin after the last; a call whose event is rejected by the  *)
(* filter or suppressed returns the cursor as it was, writes no slot and   *)
(* makes no flush.                                                         *)
(***************************************************************************)
C18_CursorStaysInBuffer ==
    [][(nextEntry \in Slots)
       => (/\ nextEntry' \in Slots
           /\ (InsertStepOf(InsertOps) /\ last'.stored)
              => /\ nextEntry' = (nextEntry + 1) % ENTRY_BUFFER_SIZE
                 /\ \A i \in Slots \ {nextEntry} : entries'[i] = entries[i]
           /\ (InsertStepOf(InsertOps) /\ ~last'.stored)
              => /\ nextEntry' = nextEntry
                 /\ entries' = entries
                 /\ io' = <<>>
                 /\ files' = files)]_vars

\* The last slot was written with a filter installed and tracing active, the
\* buffer went to the file and the cursor is back at the origin.
C18_Witness ==
    /\ Live
    /\ last.op \in InsertOps
    /\ last.stored
    /\ last.in = End - 1
    /\ nextEntry = Begin
    /\ filterAddr # <<>>
    /\ prefixMode
    /\ Len(files[PrefixTraceFile]) = ENTRY_BUFFER_SIZE

(***************************************************************************)
(* C19: completion lines are never spurious.  A line is put on the         *)
(* standard output only by a TestcaseEnd that closes a testcase file       *)
(* opened by a TestcaseStart before it: every line names a testcase file,  *)
(* the number of lines never exceeds the number of TestcaseStart calls,    *)
(* and a TestcaseEnd called while no testcase is active and prefix mode is *)
(* off (twice in a row, or before any TestcaseStart without prefix mode)   *)
(* adds none.                                                              *)
(***************************************************************************)
C19_NoSpuriousCompletionLine ==
    [][/\ Len(stdout') <= hist'.starts
       /\ \A i \in 1..Len(stdout') : stdout'[i] \in {TestcaseFile(id) : id \in TestcaseIds}
       /\ (CallStepOf("TestcaseEnd") /\ ~TracingActive(State)) => stdout' = stdout]_vars

====
